---- MODULE Spec2Model ----
(***************************************************************************)
(* The TypeScript declaration emitter of the Gleam compiler                *)
(* (compiler-core/src/javascript/typescript.rs): the type printer, the     *)
(* generic usage analysis, the import registry and TypeScriptGenerator's   *)
(* compile loop over the statements of one typed module.                   *)
(*                                                                         *)
(* A Rust String is a sequence of atoms (identifier words, letters and     *)
(* punctuation, each a TLA+ string); a Document is the sequence of the     *)
(* Strings its docvec! holds, in order.                                    *)
(***************************************************************************)
EXTENDS Integers, Sequences, FiniteSets, TLC

VARIABLES
    module,        \* the TypedModule being compiled: name, package, statements
    pc,            \* position of compile(): collect_imports, statements, assemble, done
    idx,           \* index of the next statement the flat_map iterator translates
    statements,    \* declarations collected so far (compile's `statements`)
    prelude_used,  \* UsageTracker.prelude_used
    imports,       \* the Imports registry: a set of [path, alias] registrations
    output,        \* the document compile returns (empty until done)
    call,          \* the arguments of a direct call of a pure function
    ret            \* the value that call returned

vars == <<module, pc, idx, statements, prelude_used, imports, output, call, ret>>

-----------------------------------------------------------------------------
(* Bounds of the model *)

\* longest statement list of a module of the compile specification
MaxStatements == 2
\* id_to_type_var is called on the ids 0..MaxTypeVarId
MaxTypeVarId == 720
\* deepest module path (number of segments) import_path is called with
MaxModuleDepth == 3

-----------------------------------------------------------------------------
(* Strings and documents *)

Lit(s) == <<s>>

\* Option::None of a label or of a variable name
None == "<none>"

RECURSIVE Concat(_)
Concat(docs) ==
    IF docs = <<>> THEN <<>> ELSE Head(docs) \o Concat(Tail(docs))

RECURSIVE Intersperse(_, _)
Intersperse(docs, sep) ==
    IF Len(docs) <= 1 THEN docs
    ELSE <<Head(docs), sep>> \o Intersperse(Tail(docs), sep)

RECURSIVE Repeat(_, _)
Repeat(s, n) == IF n <= 0 THEN <<>> ELSE <<s>> \o Repeat(s, n - 1)

RECURSIVE Join(_, _)
Join(parts, sep) ==
    IF parts = <<>> THEN <<>>
    ELSE IF Len(parts) = 1 THEN <<Head(parts)>>
    ELSE <<Head(parts), sep>> \o Join(Tail(parts), sep)

\* heck's to_upper_camel_case on the names of the model: words are split at
\* underscores and at case boundaries, each word is capitalised and the rest
\* of it lower-cased
ToUpperCamelCase(n) ==
    CASE n = "other" -> "Other"
      [] n = "third" -> "Third"
      [] n = "gleam" -> "Gleam"
      [] n = "app" -> "App"
      [] n = "web" -> "Web"
      [] n = "api" -> "Api"
      [] n = "my_mod" -> "MyMod"
      [] n = "a" -> "A"
      [] n = "key" -> "Key"
      [] n = "HTTPError" -> "HttpError"
      [] OTHER -> n

\* the words javascript.rs refuses as identifiers (a sample of the list)
JsReserved == {"class", "new", "delete", "function", "in", "null", "then"}

\* super::maybe_escape_identifier_string: an unusable word gets a `$`
maybe_escape_identifier_string(word) ==
    IF word \in JsReserved THEN <<word, "$">> ELSE <<word>>

\* super::maybe_escape_identifier_doc
maybe_escape_identifier_doc(word) == maybe_escape_identifier_string(word)

TsReserved ==
    {"any", "boolean", "constructor", "declare", "get", "module", "require",
     "number", "set", "string", "symbol", "type", "from", "of"}

ts_safe_type_name(name) ==
    IF name \in TsReserved THEN <<name, "_">>
    ELSE maybe_escape_identifier_string(name)

module_name(parts) == [i \in 1..Len(parts) |-> ToUpperCamelCase(parts[i])]

-----------------------------------------------------------------------------
(* Type variable names *)

\* std::char::from_u32 on the code points 64..90
from_u32(n) == SubSeq(<<"@", "A", "B", "C", "D", "E", "F", "G", "H", "I", "J",
                      "K", "L", "M", "N", "O", "P", "Q", "R", "S", "T", "U",
                      "V", "W", "X", "Y", "Z">>, n - 63, n - 63)[1]

\* the while loop of id_to_type_var: the letters pushed, in push order
RECURSIVE id_to_type_var_loop(_)
id_to_type_var_loop(last_char) ==
    IF last_char >= 26
    THEN <<from_u32((last_char % 26) + 65)>> \o id_to_type_var_loop(last_char \div 26)
    ELSE <<from_u32((last_char % 26) + 64)>>

Reverse(s) == [i \in 1..Len(s) |-> s[Len(s) + 1 - i]]

\* id_to_type_var with its loop entered only above 26
id_to_type_var_late_loop(id) ==
    IF id < 26 THEN <<from_u32((id % 26) + 65)>>
    ELSE IF id > 26 THEN Reverse(id_to_type_var_loop(id))
    ELSE <<from_u32((id % 26) + 64)>>

id_to_type_var(id) ==
    IF id < 26 THEN <<from_u32((id % 26) + 65)>>
    ELSE Reverse(id_to_type_var_loop(id))

-----------------------------------------------------------------------------
(* The internal types (type_::Type and type_::TypeVar) *)

Generic(id) == [k |-> "Var", type_ |-> [k |-> "Generic", id |-> id]]
Unbound == [k |-> "Var", type_ |-> [k |-> "Unbound"]]
Link(t) == [k |-> "Var", type_ |-> [k |-> "Link", type_ |-> t]]
App(name, mod, args) == [k |-> "App", name |-> name, module |-> mod, args |-> args]
FnType(args, retrn) == [k |-> "Fn", args |-> args, retrn |-> retrn]
Tuple(elems) == [k |-> "Tuple", elems |-> elems]

-----------------------------------------------------------------------------
(* Generic usage analysis: a HashMap<u64, u64> is a function id -> count *)

\* HashMap::new()
EmptyMap == [id \in {} |-> 0]

RECURSIVE generic_ids(_, _)
RECURSIVE generic_ids_each(_, _)

\* the `for x in xs { generic_ids(x, ids) }` loops
generic_ids_each(types, ids) ==
    IF types = <<>> THEN ids
    ELSE generic_ids_each(Tail(types), generic_ids(Head(types), ids))

generic_ids(type_, ids) ==
    CASE type_.k = "Var" ->
            (CASE type_.type_.k = "Generic" ->
                    LET id == type_.type_.id
                        entry == IF id \in DOMAIN ids THEN ids ELSE ids @@ (id :> 0)
                    IN  [entry EXCEPT ![id] = @ + 1]
               [] type_.type_.k = "Unbound" -> ids
               [] type_.type_.k = "Link" -> generic_ids(type_.type_.type_, ids))
      [] type_.k = "App" -> generic_ids_each(type_.args, ids)
      [] type_.k = "Fn" -> generic_ids(type_.retrn, generic_ids_each(type_.args, ids))
      [] type_.k = "Tuple" -> generic_ids_each(type_.elems, ids)

collect_generic_usages(ids, types) == generic_ids_each(types, ids)

\* the orders in which a HashMap over the key set S may iterate: the standard
\* hasher is seeded per map, so every enumeration of the keys is possible
RECURSIVE Orders(_)
Orders(S) ==
    IF S = {} THEN {<<>>}
    ELSE UNION {{<<x>> \o rest : rest \in Orders(S \ {x})} : x \in S}

-----------------------------------------------------------------------------
(* TypePrinter.  A print returns the document, whether it set               *)
(* tracker.prelude_used, and whether it hit the panic! of                  *)
(* print_prelude_type.  generic_usages is NoUsages (Option::None) or       *)
(* Usages(map); cm is self.current_module.                                 *)

NoUsages == [some |-> FALSE]
Usages(map) == [some |-> TRUE, map |-> map]

Printed(doc, prelude, panic) == [doc |-> doc, prelude |-> prelude, panic |-> panic]

\* super::nil()
nil == <<>>

wrap_generic_args(args) ==
    <<Lit("<")>> \o Concat(Intersperse(args, <<Lit(", ")>>)) \o <<Lit(">")>>

tuple(elems) ==
    <<Lit("[")>> \o Concat(Intersperse(elems, <<Lit(", ")>>)) \o <<Lit("]")>>

\* super::wrap_args: the parenthesised, comma-separated list
wrap_args(args) ==
    <<Lit("(")>> \o Concat(Intersperse(args, <<Lit(", ")>>)) \o <<Lit(")")>>

RECURSIVE do_print(_, _, _)

\* args.iter().map(|x| self.do_print(x, generic_usages)), with the effects
print_each(types, generic_usages, cm) ==
    LET rs == [i \in 1..Len(types) |-> do_print(types[i], generic_usages, cm)]
    IN  [docs |-> [i \in 1..Len(types) |-> rs[i].doc],
         prelude |-> \E i \in 1..Len(types) : rs[i].prelude,
         panic |-> \E i \in 1..Len(types) : rs[i].panic]

print_var(type_, generic_usages, cm) ==
    CASE type_.k = "Generic" ->
            IF generic_usages.some /\ type_.id \in DOMAIN generic_usages.map
            THEN CASE generic_usages.map[type_.id] = 0 -> Printed(nil, FALSE, FALSE)
                   [] generic_usages.map[type_.id] = 1 ->
                        Printed(<<Lit("any")>>, FALSE, FALSE)
                   [] OTHER -> Printed(<<id_to_type_var(type_.id)>>, FALSE, FALSE)
            ELSE Printed(<<id_to_type_var(type_.id)>>, FALSE, FALSE)
      [] type_.k = "Unbound" -> Printed(<<Lit("any")>>, FALSE, FALSE)
      [] type_.k = "Link" -> do_print(type_.type_, generic_usages, cm)

\* print_prelude_type that prints `any` for a name it does not know
print_prelude_type_fallback(name, args, generic_usages, cm) ==
    CASE name = "Nil" -> Printed(<<Lit("null")>>, FALSE, FALSE)
      [] name \in {"Int", "Float"} -> Printed(<<Lit("number")>>, FALSE, FALSE)
      [] name = "UtfCodepoint" -> Printed(<<Lit("$Gleam.UtfCodepoint")>>, TRUE, FALSE)
      [] name = "String" -> Printed(<<Lit("string")>>, FALSE, FALSE)
      [] name = "Bool" -> Printed(<<Lit("boolean")>>, FALSE, FALSE)
      [] name = "BitString" -> Printed(<<Lit("$Gleam.BitString")>>, TRUE, FALSE)
      [] name = "List" ->
            LET a == print_each(args, generic_usages, cm)
            IN  Printed(<<Lit("$Gleam.List")>> \o wrap_generic_args(a.docs), TRUE, a.panic)
      [] name = "Result" ->
            LET a == print_each(args, generic_usages, cm)
            IN  Printed(<<Lit("$Gleam.Result")>> \o wrap_generic_args(a.docs), TRUE, a.panic)
      [] OTHER -> Printed(<<Lit("any")>>, FALSE, FALSE)

\* the last arm is the panic!: nothing is printed and the call does not return
print_prelude_type(name, args, generic_usages, cm) ==
    CASE name = "Nil" -> Printed(<<Lit("null")>>, FALSE, FALSE)
      [] name \in {"Int", "Float"} -> Printed(<<Lit("number")>>, FALSE, FALSE)
      [] name = "UtfCodepoint" -> Printed(<<Lit("$Gleam.UtfCodepoint")>>, TRUE, FALSE)
      [] name = "String" -> Printed(<<Lit("string")>>, FALSE, FALSE)
      [] name = "Bool" -> Printed(<<Lit("boolean")>>, FALSE, FALSE)
      [] name = "BitString" -> Printed(<<Lit("$Gleam.BitString")>>, TRUE, FALSE)
      [] name = "List" ->
            LET a == print_each(args, generic_usages, cm)
            IN  Printed(<<Lit("$Gleam.List")>> \o wrap_generic_args(a.docs), TRUE, a.panic)
      [] name = "Result" ->
            LET a == print_each(args, generic_usages, cm)
            IN  Printed(<<Lit("$Gleam.Result")>> \o wrap_generic_args(a.docs), TRUE, a.panic)
      [] OTHER -> Printed(nil, FALSE, TRUE)

print_type_app(name, args, mod, generic_usages, cm) ==
    LET name1 == ts_safe_type_name(ToUpperCamelCase(name)) \o <<"$">>
        name2 == IF mod = cm THEN <<name1>>
                 ELSE <<(<<"$">> \o module_name(mod)), Lit("."), name1>>
        a == print_each(args, generic_usages, cm)
    IN  IF args = <<>> THEN Printed(name2, FALSE, FALSE)
        ELSE Printed(name2 \o wrap_generic_args(a.docs), a.prelude, a.panic)

print_fn(args, retrn, generic_usages, cm) ==
    LET a == print_each(args, generic_usages, cm)
        r == do_print(retrn, generic_usages, cm)
    IN  Printed(wrap_args([i \in 1..Len(args) |->
                              <<Lit("x"), Lit(ToString(i - 1)), Lit(": ")>> \o a.docs[i]])
                  \o <<Lit(" => ")>> \o r.doc,
                a.prelude \/ r.prelude, a.panic \/ r.panic)

do_print(type_, generic_usages, cm) ==
    CASE type_.k = "Var" -> print_var(type_.type_, generic_usages, cm)
      [] type_.k = "App" /\ type_.module = <<>> ->
            print_prelude_type(type_.name, type_.args, generic_usages, cm)
      [] type_.k = "App" /\ type_.module # <<>> ->
            print_type_app(type_.name, type_.args, type_.module, generic_usages, cm)
      [] type_.k = "Fn" -> print_fn(type_.args, type_.retrn, generic_usages, cm)
      [] type_.k = "Tuple" ->
            LET e == print_each(type_.elems, generic_usages, cm)
            IN  Printed(tuple(e.docs), e.prelude, e.panic)

\* set_prelude_used that forgets to set the flag
set_prelude_used_forgotten == FALSE

\* the value set_prelude_used writes to tracker.prelude_used
set_prelude_used == TRUE

print(type_, cm) == do_print(type_, NoUsages, cm)

print_with_generic_usages(type_, generic_usages, cm) ==
    do_print(type_, Usages(generic_usages), cm)

-----------------------------------------------------------------------------
(* TypeScriptGenerator: one declaration per statement.  A HashMap's        *)
(* iteration order is not fixed, so an operator that iterates one returns  *)
(* the set of its possible results.                                        *)

\* all sequences whose i-th element is drawn from sets[i]
RECURSIVE SeqProduct(_)
SeqProduct(sets) ==
    IF sets = <<>> THEN {<<>>}
    ELSE {<<x>> \o rest : x \in Head(sets), rest \in SeqProduct(Tail(sets))}

TypesOf(arguments) == [i \in 1..Len(arguments) |-> arguments[i].type_]

\* name_with_generics with the use_count filter of the function signatures
name_with_generics_shared_only(name, types) ==
    LET generic_usages == collect_generic_usages(EmptyMap, types)
    IN  {[name |-> name,
          generics |-> [i \in 1..Len(order) |-> id_to_type_var(order[i])]]
            : order \in Orders({id \in DOMAIN generic_usages : generic_usages[id] > 1})}

\* a name followed by its generic-parameter list (empty: super::nil())
name_with_generics(name, types) ==
    LET generic_usages == collect_generic_usages(EmptyMap, types)
    IN  {[name |-> name,
          generics |-> [i \in 1..Len(order) |-> id_to_type_var(order[i])]]
            : order \in Orders(DOMAIN generic_usages)}

\* what one statement contributes: its declarations and its effects
Outcome(decls, prelude, panic) == [decls |-> decls, prelude |-> prelude, panic |-> panic]

external_type(name, args) ==
    {Outcome(<<[kind |-> "external_type",
                head |-> <<Lit("export type ")>>,
                name |-> ts_safe_type_name(name) \o <<"$">>,
                generics |-> [i \in 1..Len(args) |-> <<ToUpperCamelCase(args[i])>>],
                tail |-> <<Lit(" = any;")>>]>>,
             FALSE, FALSE)}

type_alias(alias, type_, cm) ==
    LET t == print(type_, cm)
    IN  {Outcome(<<[kind |-> "type_alias",
                    head |-> <<Lit("export type ")>>,
                    name |-> ts_safe_type_name(alias),
                    type_ |-> t.doc]>>,
                 t.prelude, t.panic)}

\* the export marker given to opaque constructors too
export_marker_always(opaque) == <<Lit("export ")>>

\* lines 610-615: opaque type constructors are not exposed to JS
export_marker(opaque) == IF opaque THEN nil ELSE <<Lit("export ")>>

\* one class per constructor; self.type_printer.set_prelude_used() comes first
record_definition(constructor, opaque, cm) ==
    LET args == constructor.arguments
        ts == print_each(TypesOf(args), NoUsages, cm)
        ctor_name(i) == IF args[i].label # None
                        THEN maybe_escape_identifier_doc(args[i].label)
                        ELSE <<ToString(i - 1)>>
        field_name(i) == IF args[i].label # None
                         THEN maybe_escape_identifier_doc(args[i].label)
                         ELSE <<"x", ToString(i - 1)>>
    IN  {[decl |-> [kind |-> "class",
                    head |-> export_marker(opaque) \o <<Lit("class ")>>,
                    name |-> h.name,
                    generics |-> h.generics,
                    tail |-> <<Lit(" extends $Gleam.CustomType {")>>,
                    constructor |-> [i \in 1..Len(args) |->
                                        [name |-> ctor_name(i), type_ |-> ts.docs[i]]],
                    fields |-> [i \in 1..Len(args) |->
                                   [name |-> field_name(i), type_ |-> ts.docs[i]]]],
          prelude |-> set_prelude_used,
          panic |-> ts.panic]
            : h \in name_with_generics(maybe_escape_identifier_doc(constructor.name),
                                       TypesOf(args))}

custom_type_definition(name, typed_parameters, constructors, opaque, cm) ==
    LET n == Len(constructors)
        classes == SeqProduct([i \in 1..n |-> record_definition(constructors[i], opaque, cm)])
        variants == SeqProduct([i \in 1..n |->
                        name_with_generics(maybe_escape_identifier_doc(constructors[i].name),
                                           TypesOf(constructors[i].arguments))])
    IN  {Outcome([i \in 1..n |-> cs[i].decl]
                   \o <<[kind |-> "union",
                         head |-> <<Lit("export type ")>>,
                         name |-> u.name,
                         generics |-> u.generics,
                         variants |-> vs]>>,
                 \E i \in 1..n : cs[i].prelude,
                 \E i \in 1..n : cs[i].panic)
            : cs \in classes, vs \in variants,
              u \in name_with_generics(<<name, "$">>, typed_parameters)}

module_constant(name, type_, cm) ==
    LET t == print(type_, cm)
    IN  {Outcome(<<[kind |-> "const",
                    head |-> <<Lit("export const ")>>,
                    name |-> maybe_escape_identifier_doc(name),
                    type_ |-> t.doc]>>,
                 t.prelude, t.panic)}

\* shared_generics keeping every id of the table
shared_generics_all(generic_usages) ==
    {id \in DOMAIN generic_usages : generic_usages[id] > 0}

\* .filter(|(_id, use_count)| **use_count > 1): the ids that get a name
shared_generics(generic_usages) ==
    {id \in DOMAIN generic_usages : generic_usages[id] > 1}

\* the shared body of module_function and external_function; names[i] is the
\* i-th argument's variable name or label, None when it has none
function_signature(name, names, types, return_type, cm) ==
    LET generic_usages == collect_generic_usages(EmptyMap, <<return_type>> \o types)
        shared == shared_generics(generic_usages)
        ts == print_each(types, Usages(generic_usages), cm)
        r == print_with_generic_usages(return_type, generic_usages, cm)
        param(i) == IF names[i] = None THEN <<Lit("x"), Lit(ToString(i - 1))>>
                    ELSE <<maybe_escape_identifier_doc(names[i])>>
    IN  {Outcome(<<[kind |-> "function",
                    head |-> <<Lit("export function ")>>,
                    name |-> maybe_escape_identifier_doc(name),
                    generics |-> [i \in 1..Len(order) |-> id_to_type_var(order[i])],
                    params |-> [i \in 1..Len(types) |->
                                   [name |-> param(i), type_ |-> ts.docs[i]]],
                    ret |-> r.doc]>>,
                 ts.prelude \/ r.prelude, ts.panic \/ r.panic)
            : order \in Orders(shared)}

module_function(name, args, return_type, cm) ==
    function_signature(name, [i \in 1..Len(args) |-> args[i].name],
                       TypesOf(args), return_type, cm)

external_function(name, args, return_type, cm) ==
    function_signature(name, [i \in 1..Len(args) |-> args[i].label],
                       TypesOf(args), return_type, cm)

\* statement without the `if *public` guard of its Statement::Fn arm
statement_any_fn(s, cm) ==
    CASE s.kind = "Import" -> {Outcome(<<>>, FALSE, FALSE)}
      [] s.kind = "Fn" -> module_function(s.name, s.arguments, s.return_type, cm)
      [] s.kind \notin {"Import", "Fn"} /\ ~s.public -> {Outcome(<<>>, FALSE, FALSE)}
      [] s.kind = "TypeAlias" /\ s.public -> type_alias(s.alias, s.type_, cm)
      [] s.kind = "ExternalType" /\ s.public -> external_type(s.name, s.arguments)
      [] s.kind = "CustomType" /\ s.public ->
            custom_type_definition(s.name, s.typed_parameters, s.constructors, s.opaque, cm)
      [] s.kind = "ModuleConstant" /\ s.public -> module_constant(s.name, s.type_, cm)
      [] s.kind = "ExternalFn" /\ s.public ->
            external_function(s.name, s.arguments, s.return_type, cm)

statement(s, cm) ==
    CASE s.kind = "Import" -> {Outcome(<<>>, FALSE, FALSE)}
      [] s.kind # "Import" /\ ~s.public -> {Outcome(<<>>, FALSE, FALSE)}
      [] s.kind = "TypeAlias" /\ s.public -> type_alias(s.alias, s.type_, cm)
      [] s.kind = "ExternalType" /\ s.public -> external_type(s.name, s.arguments)
      [] s.kind = "CustomType" /\ s.public ->
            custom_type_definition(s.name, s.typed_parameters, s.constructors, s.opaque, cm)
      [] s.kind = "ModuleConstant" /\ s.public -> module_constant(s.name, s.type_, cm)
      [] s.kind = "Fn" /\ s.public ->
            module_function(s.name, s.arguments, s.return_type, cm)
      [] s.kind = "ExternalFn" /\ s.public ->
            external_function(s.name, s.arguments, s.return_type, cm)

-----------------------------------------------------------------------------
(* Imports *)

\* Imports::register_module: one import line per path, holding its aliases
register_module(registry, path, alias) ==
    registry \cup {[path |-> path, alias |-> alias]}

\* import_path climbing out of a dependency as far as out of the own package
import_path_short_climb(package, mod, current_name, current_package) ==
    LET path == Join(mod, "/")
    IN  IF package = current_package \/ package = ""
        THEN IF Len(current_name) = 1
             THEN <<"./">> \o path \o <<".d.ts">>
             ELSE Repeat("../", Len(current_name) - 1) \o path \o <<".d.ts">>
        ELSE Repeat("../", Len(current_name) - 1) \o <<package, "/dist/">>
                \o path \o <<".d.ts">>

import_path(package, mod, current_name, current_package) ==
    LET path == Join(mod, "/")
    IN  IF package = current_package \/ package = ""
        THEN IF Len(current_name) = 1
             THEN <<"./">> \o path \o <<".d.ts">>
             ELSE Repeat("../", Len(current_name) - 1) \o path \o <<".d.ts">>
        ELSE Repeat("../", Len(current_name) + 1) \o <<package, "/dist/">>
                \o path \o <<".d.ts">>

register_import(registry, package, mod, m) ==
    register_module(registry, import_path(package, mod, m.name, m.package),
                    <<"$">> \o module_name(mod))

RECURSIVE collect_imports_from(_, _, _)
collect_imports_from(stmts, registry, m) ==
    IF stmts = <<>> THEN registry
    ELSE collect_imports_from(
            Tail(stmts),
            IF Head(stmts).kind = "Import"
            THEN register_import(registry, Head(stmts).package, Head(stmts).module, m)
            ELSE registry,
            m)

\* Imports::new()
NoImports == {}

collect_imports(m) == collect_imports_from(m.statements, NoImports, m)

-----------------------------------------------------------------------------
(* The items of the document compile returns *)

line == [item |-> "line"]
lines(n) == [item |-> "lines", n |-> n]
Text(s) == [item |-> "text", text |-> s]
DeclItem(d) == [item |-> "decl", decl |-> d]

\* Imports::into_doc: the import lines of the registry
imports_into_doc(registry) == <<[item |-> "imports", lines |-> registry]>>

\* assemble emitting the marker whenever there are no statements
assemble_ignoring_imports(registry, stmts) ==
    IF stmts = <<>> THEN <<Text("export {}"), line>>
    ELSE IF registry = {} THEN stmts \o <<line>>
    ELSE imports_into_doc(registry) \o <<line>> \o stmts \o <<line>>

\* lines 406-415 of compile: the four layouts of the document
assemble(registry, stmts) ==
    IF registry = {} /\ stmts = <<>> THEN <<Text("export {}"), line>>
    ELSE IF registry = {} THEN stmts \o <<line>>
    ELSE IF stmts = <<>> THEN imports_into_doc(registry)
    ELSE imports_into_doc(registry) \o <<line>> \o stmts \o <<line>>

\* lines 401-404 of compile: the runtime import, when the prelude was used
register_prelude(registry, used, m) ==
    IF used
    THEN register_module(registry,
                         import_path(m.package, <<"gleam">>, m.name, m.package),
                         <<"$", "Gleam">>)
    ELSE registry

\* lines 396-397 of compile: two lines between each statement
two_lines_between(decls) ==
    Intersperse([i \in 1..Len(decls) |-> DeclItem(decls[i])], lines(2))

\* the possible results of translating a statement list in order: the
\* declarations, and whether the prelude was used
RECURSIVE translate_all(_, _)
translate_all(stmts, cm) ==
    IF stmts = <<>> THEN {[decls |-> <<>>, prelude |-> FALSE]}
    ELSE {[decls |-> r.decls \o rest.decls, prelude |-> r.prelude \/ rest.prelude]
            : r \in {x \in statement(Head(stmts), cm) : ~x.panic},
              rest \in translate_all(Tail(stmts), cm)}

\* the documents compile may return for the module m
compile(m) ==
    {assemble(register_prelude(collect_imports(m), run.prelude, m),
              two_lines_between(run.decls))
        : run \in translate_all(m.statements, m.name)}

-----------------------------------------------------------------------------
(* The statements of a typed module (ast::Statement) *)

Import(package, mod) == [kind |-> "Import", package |-> package, module |-> mod]
TypeAlias(alias, public, type_) ==
    [kind |-> "TypeAlias", alias |-> alias, public |-> public, type_ |-> type_]
ExternalType(name, public, arguments) ==
    [kind |-> "ExternalType", name |-> name, public |-> public, arguments |-> arguments]
CustomType(name, public, opaque, typed_parameters, constructors) ==
    [kind |-> "CustomType", name |-> name, public |-> public, opaque |-> opaque,
     typed_parameters |-> typed_parameters, constructors |-> constructors]
ModuleConstant(name, public, type_) ==
    [kind |-> "ModuleConstant", name |-> name, public |-> public, type_ |-> type_]
Fn(name, public, arguments, return_type) ==
    [kind |-> "Fn", name |-> name, public |-> public,
     arguments |-> arguments, return_type |-> return_type]
ExternalFn(name, public, arguments, return_type) ==
    [kind |-> "ExternalFn", name |-> name, public |-> public,
     arguments |-> arguments, return_type |-> return_type]

RecordConstructor(name, arguments) == [name |-> name, arguments |-> arguments]
Labelled(label, type_) == [label |-> label, type_ |-> type_]
Named(name, type_) == [name |-> name, type_ |-> type_]

-----------------------------------------------------------------------------
(* The inputs of the model *)

Prelude(name, args) == App(name, <<>>, args)
IntT == Prelude("Int", <<>>)
FloatT == Prelude("Float", <<>>)
StringT == Prelude("String", <<>>)
NilT == Prelude("Nil", <<>>)
BoolT == Prelude("Bool", <<>>)
ListT(t) == Prelude("List", <<t>>)
ResultT(t, e) == Prelude("Result", <<t, e>>)

\* the package and the possible names of the module being compiled
CurrentPackage == "app"
CurrentNames == {<<"app">>, <<"app", "web">>}

\* another module of the same package, and a module of a dependency
OtherModule == <<"other">>
ThirdModule == <<"third", "api">>

\* the generics of the statements: one named by a letter, one by two letters
tvA == Generic(0)
tvC == Generic(27)

\* sequences over S of length lo..hi
SeqsOf(S, lo, hi) == UNION {[1..n -> S] : n \in lo..hi}

\* the statements of the short modules (every kind, public and private)
CoreStatements(cm) ==
    {Import(CurrentPackage, OtherModule), Import("dep", ThirdModule)}
    \cup UNION {
        {ModuleConstant("max_int", p, IntT),
         ModuleConstant("names", p, ListT(StringT)),
         TypeAlias("Headers", p, App("Thing", OtherModule, <<>>)),
         ExternalType("Thing", p, <<"a">>),
         CustomType("Shape", p, FALSE, <<>>,
                    <<RecordConstructor("Circle", <<Labelled("radius", FloatT)>>),
                      RecordConstructor("Square", <<Labelled("side", FloatT)>>)>>),
         CustomType("Token", p, TRUE, <<>>, <<RecordConstructor("Token", <<>>)>>),
         Fn("identity", p, <<Named("x", tvA)>>, tvA),
         Fn("lookup", p, <<Named("key", App("Key", ThirdModule, <<>>))>>,
            App("Thing", OtherModule, <<>>)),
         ExternalFn("log", p, <<Labelled(None, StringT)>>, NilT)}
        : p \in BOOLEAN}

\* the types of the single-statement modules
ArgumentTypes(cm) ==
    {tvA, tvC, Link(tvA), Link(Link(tvC)), Unbound, IntT, ListT(tvA), Tuple(<<tvA, tvA>>),
     FnType(<<tvA>>, tvC), App("Box", OtherModule, <<tvA>>)}
ReturnTypes(cm) ==
    {tvA, StringT, ResultT(tvA, tvC), Tuple(<<tvC, tvA>>), Link(Unbound), App("HTTPError", cm, <<>>)}
ConcreteTypes(cm) ==
    {IntT, BoolT, ListT(StringT), Prelude("BitString", <<>>), Prelude("UtfCodepoint", <<>>),
     App("Thing", cm, <<>>), App("Thing", ThirdModule, <<IntT>>)}

Signatures(cm) ==
    {[types |-> ts, return_type |-> r]
        : ts \in SeqsOf(ArgumentTypes(cm), 0, 2), r \in ReturnTypes(cm)}

\* a function's first argument is named (or labelled), its others are not
ArgumentNames(n) == [i \in 1..n |-> IF i = 1 THEN "item" ELSE None]

Functions(cm) ==
    UNION {
        {Fn("main", p, [i \in 1..Len(g.types) |->
                           Named(ArgumentNames(Len(g.types))[i], g.types[i])],
            g.return_type),
         ExternalFn("delete", p, [i \in 1..Len(g.types) |->
                                     Labelled(ArgumentNames(Len(g.types))[i], g.types[i])],
                    g.return_type)}
        : g \in Signatures(cm), p \in BOOLEAN}

Constructors ==
    {RecordConstructor("Empty", <<>>),
     RecordConstructor("Box", <<Labelled("value", tvA)>>),
     RecordConstructor("Pair", <<Labelled(None, tvA), Labelled(None, tvC)>>),
     RecordConstructor("Node", <<Labelled("items", ListT(tvC)), Labelled(None, IntT)>>)}

GenericsOf(types) == DOMAIN collect_generic_usages(EmptyMap, types)

\* the type checker admits no type variable in a constructor that is not a
\* parameter of the custom type
CustomTypes ==
    {CustomType(name, p, o, ps, cs)
        : name \in {"Box", "HTTPError"}, p \in BOOLEAN, o \in BOOLEAN,
          ps \in {<<>>, <<tvA>>, <<tvC>>, <<tvA, tvC>>},
          cs \in {cs \in SeqsOf(Constructors, 1, 2) :
                     \A i \in 1..Len(cs) : i < Len(cs) => cs[i] # cs[Len(cs)]}}

WellTyped(s) ==
    s.kind = "CustomType" =>
        \A i \in 1..Len(s.constructors) :
            GenericsOf(TypesOf(s.constructors[i].arguments)) \subseteq GenericsOf(s.typed_parameters)

WideStatements(cm) ==
    Functions(cm)
    \cup {s \in CustomTypes : WellTyped(s)}
    \cup {TypeAlias(n, p, t) : n \in {"Headers", "HTTPError"}, p \in BOOLEAN,
                               t \in ArgumentTypes(cm) \cup ReturnTypes(cm)}
    \cup {ExternalType(n, p, ps) : n \in {"Thing", "HTTPError"}, p \in BOOLEAN,
                                   ps \in {<<>>, <<"a">>, <<"key", "a">>}}
    \cup {ModuleConstant(n, p, t) : n \in {"max_int", "class"}, p \in BOOLEAN,
                                    t \in ConcreteTypes(cm)}

TypedModule(name, stmts) ==
    [name |-> name, package |-> CurrentPackage, statements |-> stmts]

\* the types a statement carries
StatementTypes(s) ==
    CASE s.kind \in {"TypeAlias", "ModuleConstant"} -> <<s.type_>>
      [] s.kind \in {"Fn", "ExternalFn"} -> <<s.return_type>> \o TypesOf(s.arguments)
      [] s.kind = "CustomType" ->
            Concat([i \in 1..Len(s.constructors) |-> TypesOf(s.constructors[i].arguments)])
      [] OTHER -> <<>>

\* some type of the list names a type of a module other than cm
RECURSIVE NamesOtherModule(_, _)
NamesOtherModule(types, cm) ==
    \E i \in 1..Len(types) :
        LET t == types[i]
        IN  CASE t.k = "Var" /\ t.type_.k = "Link" -> NamesOtherModule(<<t.type_.type_>>, cm)
              [] t.k = "Var" /\ t.type_.k # "Link" -> FALSE
              [] t.k = "App" ->
                    t.module \notin {<<>>, cm} \/ NamesOtherModule(t.args, cm)
              [] t.k = "Fn" -> NamesOtherModule(t.args \o <<t.retrn>>, cm)
              [] t.k = "Tuple" -> NamesOtherModule(t.elems, cm)

\* a type of another module reaches a module only through something the
\* module imports: a module that names one has an Import statement
Importing(stmts, cm) ==
    (\E i \in 1..Len(stmts) : NamesOtherModule(StatementTypes(stmts[i]), cm))
        => \E i \in 1..Len(stmts) : stmts[i].kind = "Import"

\* the short modules over the core statements, and the modules of one wide
\* statement (after an Import, when the statement needs one)
Modules ==
    UNION {
        {TypedModule(cm, stmts) :
            stmts \in {x \in SeqsOf(CoreStatements(cm), 0, MaxStatements) : Importing(x, cm)}}
        \cup {TypedModule(cm, IF Importing(<<s>>, cm) THEN <<s>>
                               ELSE <<Import(CurrentPackage, OtherModule), s>>)
                : s \in WideStatements(cm)}
        : cm \in CurrentNames}

\* the value of `call` and `ret` while compile runs, and before a call returns
NoCall == [fn |-> "none"]
NotReturned == [returned |-> FALSE]
Returned(v) == [returned |-> TRUE, value |-> v]

-----------------------------------------------------------------------------
(* TypeScriptGenerator::compile *)

Init ==
    /\ module \in Modules
    /\ pc = "collect_imports"
    /\ idx = 1
    /\ statements = <<>>
    /\ prelude_used = FALSE
    /\ imports = NoImports
    /\ output = <<>>
    /\ call = NoCall
    /\ ret = NotReturned

\* line 388: let mut imports = self.collect_imports()
CollectImports ==
    /\ pc = "collect_imports"
    /\ imports' = collect_imports(module)
    /\ pc' = "statements"
    /\ UNCHANGED <<module, idx, statements, prelude_used, output, call, ret>>

\* lines 389-397: try_collect pulls the next statement through self.statement
Statement ==
    /\ pc = "statements"
    /\ idx <= Len(module.statements)
    /\ \E r \in statement(module.statements[idx], module.name) :
          /\ ~r.panic
          /\ statements' = statements \o r.decls
          /\ prelude_used' = (prelude_used \/ r.prelude)
    /\ idx' = idx + 1
    /\ UNCHANGED <<module, pc, imports, output, call, ret>>

\* lines 399-415: the iterator is exhausted; register the runtime import when
\* the prelude was used, then lay the document out
Assemble ==
    /\ pc = "statements"
    /\ idx > Len(module.statements)
    /\ imports' = register_prelude(imports, prelude_used, module)
    /\ output' = assemble(imports', two_lines_between(statements))
    /\ pc' = "done"
    /\ UNCHANGED <<module, idx, statements, prelude_used, call, ret>>

Next == CollectImports \/ Statement \/ Assemble

Spec == Init /\ [][Next]_vars

-----------------------------------------------------------------------------
(* compile on modules that hold a builtin type the printer does not know *)

\* a type of the empty module whose name print_prelude_type has no arm for
NeverT == Prelude("Never", <<>>)

\* statements with and without such a type, at every depth of a type
AbortStatements(cm) ==
    {ModuleConstant("max_int", TRUE, IntT),
     ModuleConstant("names", TRUE, ListT(StringT)),
     ModuleConstant("bad", TRUE, NeverT),
     ModuleConstant("bad", FALSE, NeverT),
     TypeAlias("Headers", TRUE, ListT(NeverT)),
     TypeAlias("Headers", FALSE, ListT(NeverT)),
     Fn("main", TRUE, <<Named("item", Link(NeverT))>>, IntT),
     Fn("identity", TRUE, <<Named("x", tvA)>>, tvA),
     ExternalFn("log", TRUE, <<Labelled(None, StringT)>>, Tuple(<<IntT, NeverT>>)),
     ExternalFn("send", TRUE, <<Labelled(None, App("Thing", cm, <<NeverT>>))>>, NilT),
     CustomType("Box", TRUE, FALSE, <<>>,
                <<RecordConstructor("Empty", <<>>),
                  RecordConstructor("Box", <<Labelled("value", FnType(<<IntT>>, NeverT))>>)>>),
     CustomType("Token", TRUE, TRUE, <<>>, <<RecordConstructor("Token", <<>>)>>),
     ExternalType("Thing", TRUE, <<"a">>)}

AbortModules ==
    UNION {{TypedModule(cm, stmts) : stmts \in SeqsOf(AbortStatements(cm), 0, MaxStatements)}
            : cm \in CurrentNames}

InitAbort ==
    /\ module \in AbortModules
    /\ pc = "collect_imports"
    /\ idx = 1
    /\ statements = <<>>
    /\ prelude_used = FALSE
    /\ imports = NoImports
    /\ output = <<>>
    /\ call = NoCall
    /\ ret = NotReturned

\* line 147, reached through lines 389-397: the statement try_collect pulls
\* hits the panic! of print_prelude_type; compile unwinds and returns nothing.
\* The part of the statement printed before the panic! may have set the flag.
Panic ==
    /\ pc = "statements"
    /\ idx <= Len(module.statements)
    /\ \E r \in statement(module.statements[idx], module.name) :
          /\ r.panic
          /\ prelude_used' \in {prelude_used, prelude_used \/ r.prelude}
    /\ pc' = "panicked"
    /\ UNCHANGED <<module, idx, statements, imports, output, call, ret>>

NextAbort == CollectImports \/ Statement \/ Assemble \/ Panic

SpecAbort == InitAbort /\ [][NextAbort]_vars

-----------------------------------------------------------------------------
(* Direct calls of the pure functions id_to_type_var and import_path *)

\* module paths of 1..MaxModuleDepth segments
Paths(segments) == SeqsOf(segments, 1, MaxModuleDepth)

Calls ==
    {[fn |-> "id_to_type_var", id |-> id] : id \in 0..MaxTypeVarId}
    \cup {[fn |-> "import_path", package |-> package, module |-> mod,
           current_name |-> name, current_package |-> CurrentPackage]
            : package \in {"", CurrentPackage, "dep"},
              mod \in Paths({"other", "api"}),
              name \in Paths({"app", "web"})}

InitCalls ==
    /\ call \in Calls
    /\ ret = NotReturned
    /\ module = TypedModule(<<"app">>, <<>>)
    /\ pc = "idle"
    /\ idx = 1
    /\ statements = <<>>
    /\ prelude_used = FALSE
    /\ imports = NoImports
    /\ output = <<>>

CallIdToTypeVar ==
    /\ call.fn = "id_to_type_var"
    /\ ret = NotReturned
    /\ ret' = Returned(id_to_type_var(call.id))
    /\ UNCHANGED <<module, pc, idx, statements, prelude_used, imports, output, call>>

CallImportPath ==
    /\ call.fn = "import_path"
    /\ ret = NotReturned
    /\ ret' = Returned(import_path(call.package, call.module,
                                   call.current_name, call.current_package))
    /\ UNCHANGED <<module, pc, idx, statements, prelude_used, imports, output, call>>

NextCalls == CallIdToTypeVar \/ CallImportPath

SpecCalls == InitCalls /\ [][NextCalls]_vars

-----------------------------------------------------------------------------
(* Properties of the pure functions, under SpecCalls *)

Letters ==
    {"A", "B", "C", "D", "E", "F", "G", "H", "I", "J", "K", "L", "M", "N", "O",
     "P", "Q", "R", "S", "T", "U", "V", "W", "X", "Y", "Z"}

\* C7: id_to_type_var is injective on the ids 0..MaxTypeVarId (no other id
\* gets the name a call returned), and every name it returns is a non-empty
\* string of the letters A..Z.  (That a second call on the same id returns
\* the same name holds of any function without state and is not part of the
\* formula.)
C7_NamerInjective ==
    (call.fn = "id_to_type_var" /\ ret.returned) =>
        /\ Len(ret.value) > 0
        /\ \A i \in 1..Len(ret.value) : ret.value[i] \in Letters
        /\ \A other \in 0..MaxTypeVarId :
              other # call.id => id_to_type_var(other) # ret.value

\* a call on an id past 26 * 26 returned its three-letter name
C7_Witness ==
    /\ call.fn = "id_to_type_var"
    /\ call.id >= 676
    /\ ret.returned
    /\ Len(ret.value) = 3

\* the referenced module's segments with a `/` between them
Joined(mod) ==
    [i \in 1..(2 * Len(mod) - 1) |-> IF i % 2 = 1 THEN mod[(i + 1) \div 2] ELSE "/"]

\* the number of `../` a path starts with
RECURSIVE UpSteps(_)
UpSteps(path) ==
    IF path # <<>> /\ Head(path) = "../" THEN 1 + UpSteps(Tail(path)) ELSE 0

\* C6: for a current module of n >= 1 segments, import_path returns, for the
\* own or the empty package, n-1 times `../` (`./` when n = 1), the joined
\* segments of the referenced module and `.d.ts`; for another package, n+1
\* times `../`, `<package>/dist/`, the joined segments and `.d.ts`.  The
\* number of upward steps is a function of n and of the package alone.
C6_ImportPath ==
    (call.fn = "import_path" /\ ret.returned) =>
        LET n == Len(call.current_name)
            own == call.package = call.current_package \/ call.package = ""
            ups == UpSteps(ret.value)
            rest == SubSeq(ret.value, ups + 1, Len(ret.value))
            file == Joined(call.module) \o <<".d.ts">>
        IN  /\ (own /\ n = 1) => ret.value = <<"./">> \o file
            /\ (own /\ n > 1) => (ups = n - 1 /\ rest = file)
            /\ ~own => (ups = n + 1 /\ rest = <<call.package, "/dist/">> \o file)

\* a module three segments deep got its path into a dependency's module
C6_Witness ==
    /\ call.fn = "import_path"
    /\ call.package = "dep"
    /\ Len(call.current_name) = 3
    /\ Len(call.module) = 2
    /\ ret.returned
    /\ UpSteps(ret.value) = 4

-----------------------------------------------------------------------------
(* Properties of compile, under Spec *)

Range(seq) == {seq[i] : i \in DOMAIN seq}
Last(seq) == seq[Len(seq)]
Count(seq, x) == Cardinality({i \in DOMAIN seq : seq[i] = x})

\* a statement has been translated; Translated is the latest one
SomeTranslated == pc \in {"statements", "done"} /\ idx > 1
Translated == module.statements[idx - 1]

\* how often Generic{id} occurs in a type, following Links
RECURSIVE Occurrences(_, _)
RECURSIVE OccurrencesIn(_, _)
OccurrencesIn(types, id) ==
    IF types = <<>> THEN 0
    ELSE Occurrences(Head(types), id) + OccurrencesIn(Tail(types), id)
Occurrences(type_, id) ==
    CASE type_.k = "Var" /\ type_.type_.k = "Generic" ->
            IF type_.type_.id = id THEN 1 ELSE 0
      [] type_.k = "Var" /\ type_.type_.k = "Unbound" -> 0
      [] type_.k = "Var" /\ type_.type_.k = "Link" -> Occurrences(type_.type_.type_, id)
      [] type_.k = "App" -> OccurrencesIn(type_.args, id)
      [] type_.k = "Fn" -> OccurrencesIn(type_.args \o <<type_.retrn>>, id)
      [] type_.k = "Tuple" -> OccurrencesIn(type_.elems, id)

\* how often an Unbound variable occurs in a type, following Links
RECURSIVE UnboundIn(_)
UnboundIn(types) ==
    IF types = <<>> THEN 0
    ELSE LET t == Head(types)
             here == CASE t.k = "Var" /\ t.type_.k = "Generic" -> 0
                       [] t.k = "Var" /\ t.type_.k = "Unbound" -> 1
                       [] t.k = "Var" /\ t.type_.k = "Link" -> UnboundIn(<<t.type_.type_>>)
                       [] t.k = "App" -> UnboundIn(t.args)
                       [] t.k = "Fn" -> UnboundIn(t.args \o <<t.retrn>>)
                       [] t.k = "Tuple" -> UnboundIn(t.elems)
         IN  here + UnboundIn(Tail(types))

\* the generic ids the statements of the model are built from
ModelIds == {tvA.type_.id, tvC.type_.id}

\* C1: for a public Fn or ExternalFn, counting the occurrences of each generic
\* id over the return type and the argument types (following Links, skipping
\* Unbound): an id that occurs once is printed as `any` and is no generic
\* parameter of the declaration; an id that occurs k >= 2 times is printed
\* under its id_to_type_var name at all k places and is one generic parameter.
C1_FunctionGenerics ==
    (SomeTranslated /\ Translated.kind \in {"Fn", "ExternalFn"} /\ Translated.public) =>
        LET s == Translated
            d == Last(statements)
            types == <<s.return_type>> \o TypesOf(s.arguments)
            printed == d.ret \o Concat([i \in 1..Len(d.params) |-> d.params[i].type_])
            once == {id \in ModelIds : OccurrencesIn(types, id) = 1}
        IN  /\ d.kind = "function"
            /\ \A id \in ModelIds :
                  LET k == OccurrencesIn(types, id)
                      name == id_to_type_var(id)
                  IN  /\ k = 1 => (Count(printed, name) = 0 /\ Count(d.generics, name) = 0)
                      /\ k >= 2 => (Count(printed, name) = k /\ Count(d.generics, name) = 1)
            /\ Count(printed, Lit("any")) = Cardinality(once) + UnboundIn(types)
            /\ Len(d.generics) = Cardinality({id \in ModelIds : OccurrencesIn(types, id) >= 2})

\* a function with one generic used once and another used three times
C1_Witness ==
    /\ SomeTranslated
    /\ Translated.kind = "Fn"
    /\ Translated.public
    /\ OccurrencesIn(<<Translated.return_type>> \o TypesOf(Translated.arguments), 0) = 3
    /\ OccurrencesIn(<<Translated.return_type>> \o TypesOf(Translated.arguments), 27) = 1
    /\ Last(statements).generics = <<(<<"A">>)>>
    /\ Last(statements).ret = <<Lit("any")>>

ExportMarkers == {"export ", "export type ", "export const ", "export function "}

\* the declaration starts with an export marker
Exported(d) == Head(Head(d.head)) \in ExportMarkers

\* the step that translates a public CustomType with n constructors appends n
\* classes and one union, exported as C3 says
C3_Step ==
    (/\ pc = "statements"
     /\ idx <= Len(module.statements)
     /\ idx' = idx + 1
     /\ module.statements[idx].kind = "CustomType"
     /\ module.statements[idx].public) =>
        LET s == module.statements[idx]
            n == Len(s.constructors)
            new == SubSeq(statements', Len(statements) + 1, Len(statements'))
        IN  /\ SubSeq(statements', 1, Len(statements)) = statements
            /\ Len(new) = n + 1
            /\ \A i \in 1..n :
                  /\ new[i].kind = "class"
                  /\ Head(new[i].name) = s.constructors[i].name
                  /\ Exported(new[i]) <=> ~s.opaque
            /\ new[n + 1].kind = "union"
            /\ Exported(new[n + 1])

\* C3: translating a public CustomType with n constructors appends n class
\* declarations, in constructor order, and then one union declaration; the
\* classes carry `export` exactly when the type is not opaque, the union
\* carries it always.
C3_CustomTypeDeclarations == [][C3_Step]_vars

\* an opaque custom type with two constructors has been translated
C3_Witness ==
    /\ SomeTranslated
    /\ Translated.kind = "CustomType"
    /\ Translated.public
    /\ Translated.opaque
    /\ Len(Translated.constructors) = 2
    /\ Len(statements) = 3
    /\ ~Exported(statements[1])
    /\ ~Exported(statements[2])
    /\ Exported(statements[3])

RuntimeBacked == {"UtfCodepoint", "BitString", "List", "Result"}

\* some type of the list holds a runtime-backed builtin, following Links
RECURSIVE UsesRuntime(_)
UsesRuntime(types) ==
    \E i \in 1..Len(types) :
        LET t == types[i]
        IN  CASE t.k = "Var" /\ t.type_.k = "Link" -> UsesRuntime(<<t.type_.type_>>)
              [] t.k = "Var" /\ t.type_.k # "Link" -> FALSE
              [] t.k = "App" ->
                    (t.module = <<>> /\ t.name \in RuntimeBacked) \/ UsesRuntime(t.args)
              [] t.k = "Fn" -> UsesRuntime(t.args \o <<t.retrn>>)
              [] t.k = "Tuple" -> UsesRuntime(t.elems)

\* a public declaration that translates a runtime-backed builtin or emits a
\* custom-type constructor
NeedsRuntime(s) ==
    /\ s.kind # "Import"
    /\ s.public
    /\ \/ s.kind = "CustomType" /\ s.constructors # <<>>
       \/ UsesRuntime(StatementTypes(s))

RuntimeImported == \E r \in imports : r.alias = <<"$", "Gleam">>

\* C5: prelude_used starts false and from then on is true exactly when one of
\* the statements translated so far needs the runtime (so it is never reset);
\* no `$Gleam` import is registered before every statement has been
\* translated, and compile registers it if and only if some public
\* declaration translated UtfCodepoint, BitString, List or Result or emitted
\* a custom-type constructor.  (The modules import no module named `gleam`.)
C5_PreludeFlag ==
    /\ pc = "collect_imports" => ~prelude_used
    /\ pc \in {"statements", "done"} =>
          (prelude_used <=> \E i \in 1..(idx - 1) : NeedsRuntime(module.statements[i]))
    /\ pc # "done" => ~RuntimeImported
    /\ pc = "done" =>
          (RuntimeImported <=>
              \E i \in 1..Len(module.statements) : NeedsRuntime(module.statements[i]))

\* a module whose first statement set the flag and whose second did not
C5_Witness ==
    /\ pc = "done"
    /\ Len(module.statements) = 2
    /\ NeedsRuntime(module.statements[1])
    /\ module.statements[2].kind = "ModuleConstant"
    /\ module.statements[2].public
    /\ ~NeedsRuntime(module.statements[2])
    /\ RuntimeImported

Marker == <<Text("export {}"), line>>

\* C10: the document compile returns is the marker line `export {}` if and
\* only if, after the runtime-import decision, the import registry is empty
\* and no statement produced a declaration; it is never empty, and with an
\* import or a declaration it holds no marker.
C10_ExportMarker ==
    pc = "done" =>
        /\ output # <<>>
        /\ output = Marker <=> (imports = {} /\ statements = <<>>)
        /\ (imports # {} \/ statements # <<>>) =>
              \A i \in 1..Len(output) : output[i] # Text("export {}")

\* a module of private statements only returned the marker
C10_Witness ==
    /\ pc = "done"
    /\ Len(module.statements) = 2
    /\ output = Marker

\* the statements that may produce output: the Imports and the public ones
PublicOnly(stmts) == SelectSeq(stmts, LAMBDA s : s.kind = "Import" \/ s.public)
PublicModule == [module EXCEPT !.statements = PublicOnly(module.statements)]

\* C2: a non-public TypeAlias, CustomType, ExternalType, ModuleConstant, Fn
\* or ExternalFn emits no declaration, leaves prelude_used unchanged and
\* registers no import: the registry, the declarations and the flag are at
\* every point those of the module without its non-public statements, and
\* the documents compile may return are the same for both modules.
C2_PrivateStatementsDropped ==
    /\ pc = "statements" => imports = collect_imports(PublicModule)
    /\ pc \in {"statements", "done"} =>
          [decls |-> statements, prelude |-> prelude_used]
              \in translate_all(PublicOnly(SubSeq(module.statements, 1, idx - 1)),
                                module.name)
    /\ pc = "done" =>
          /\ output \in compile(PublicModule)
          /\ compile(module) = compile(PublicModule)

\* a private custom type, which would need the runtime, before a public constant
C2_Witness ==
    /\ pc = "done"
    /\ Len(module.statements) = 2
    /\ module.statements[1].kind = "CustomType"
    /\ ~module.statements[1].public
    /\ module.statements[2].kind = "ModuleConstant"
    /\ module.statements[2].public
    /\ Len(statements) = 1
    /\ ~prelude_used
    /\ imports = {}

\* the generic ids of a type list, following Links
IdsIn(types) == {id \in ModelIds : OccurrencesIn(types, id) > 0}

\* C8 as claimed: the generic parameters of a public CustomType's union are
\* exactly the generics found in the argument types of its constructors.
C8_UnionGenericsFromConstructors ==
    (SomeTranslated /\ Translated.kind = "CustomType" /\ Translated.public) =>
        Range(Last(statements).generics)
            = {id_to_type_var(id) : id \in IdsIn(StatementTypes(Translated))}

\* C8 as amended: the generic parameters of a public CustomType's union are
\* exactly the generics of the type's own parameters (typed_parameters), each
\* once; every generic applied to a constructor name on the right-hand side
\* is among them (a parameter no constructor uses stays a parameter).
C8_UnionGenericsFromParameters ==
    (SomeTranslated /\ Translated.kind = "CustomType" /\ Translated.public) =>
        LET union == Last(statements)
            ids == IdsIn(Translated.typed_parameters)
        IN  /\ union.kind = "union"
            /\ Range(union.generics) = {id_to_type_var(id) : id \in ids}
            /\ Len(union.generics) = Cardinality(ids)
            /\ Len(union.variants) = Len(Translated.constructors)
            /\ \A i \in 1..Len(union.variants) :
                  /\ Range(union.variants[i].generics)
                        = {id_to_type_var(id)
                             : id \in IdsIn(TypesOf(Translated.constructors[i].arguments))}
                  /\ Range(union.variants[i].generics) \subseteq Range(union.generics)

\* a custom type with two parameters whose only constructor uses one of them
C8_Witness ==
    /\ SomeTranslated
    /\ Translated.kind = "CustomType"
    /\ Translated.public
    /\ Len(Translated.typed_parameters) = 2
    /\ Len(Translated.constructors) = 1
    /\ Len(Last(statements).generics) = 2
    /\ Last(statements).variants[1].generics = <<(<<"A">>)>>

\* the type documents a declaration holds
TypeDocs(d) ==
    CASE d.kind \in {"type_alias", "const"} -> {d.type_}
      [] d.kind = "function" -> {d.ret} \cup {d.params[i].type_ : i \in DOMAIN d.params}
      [] d.kind = "class" ->
            {d.constructor[i].type_ : i \in DOMAIN d.constructor}
            \cup {d.fields[i].type_ : i \in DOMAIN d.fields}
      [] OTHER -> {}

\* the namespace aliases that qualify a type name in a document
AliasesIn(doc) ==
    {doc[i] : i \in {j \in 1..(Len(doc) - 1) : Head(doc[j]) = "$" /\ doc[j + 1] = Lit(".")}}

ReferencedAliases == UNION {AliasesIn(doc) : doc \in UNION {TypeDocs(d) : d \in Range(statements)}}

\* C4: every other module whose namespace alias qualifies a type of an
\* emitted declaration is registered exactly once as a namespace import in
\* the final output.
C4_ReferencedModulesImported ==
    pc = "done" =>
        \A alias \in ReferencedAliases :
            Cardinality({r \in imports : r.alias = alias}) = 1

\* the type names the model's statements declare and refer to, as printed
UserTypeNames == {"Thing", "HttpError", "Box", "Key", "Headers", "HTTPError", "Shape", "Token"}

\* the references to user-defined types in a document
TypeReferences(doc) == {doc[i] : i \in {j \in DOMAIN doc : Head(doc[j]) \in UserTypeNames}}

\* C9: the declared name of every public type alias, external type and
\* custom type union, and every reference to a user-defined type in a
\* printed type, ends with `$`.
C9_TypeNamesSuffixed ==
    \A d \in Range(statements) :
        /\ d.kind \in {"type_alias", "external_type", "union"} => Last(d.name) = "$"
        /\ \A doc \in TypeDocs(d) : \A name \in TypeReferences(doc) : Last(name) = "$"

\* what holds of the code instead: the same with the type aliases left out
TypeNamesSuffixedButAliases ==
    \A d \in Range(statements) :
        /\ d.kind \in {"external_type", "union"} => Last(d.name) = "$"
        /\ \A doc \in TypeDocs(d) : \A name \in TypeReferences(doc) : Last(name) = "$"

\* C11: compile is deterministic: the document a run returns is the only
\* document compile can return for that module, so the order of the names in
\* every generic-parameter list is a function of the module alone.
C11_Deterministic ==
    pc = "done" => \A doc \in compile(module) : doc = output

\* what holds of the code instead: two documents compile may return for one
\* module differ at most in the order of the names inside the generic lists
\* of corresponding declarations
SameUpToGenericOrder(d, e) ==
    /\ DOMAIN d = DOMAIN e
    /\ \A f \in DOMAIN d \ {"generics", "variants"} : d[f] = e[f]
    /\ "generics" \in DOMAIN d =>
          (Len(d.generics) = Len(e.generics) /\ Range(d.generics) = Range(e.generics))
    /\ "variants" \in DOMAIN d =>
          /\ Len(d.variants) = Len(e.variants)
          /\ \A i \in 1..Len(d.variants) :
                /\ d.variants[i].name = e.variants[i].name
                /\ Len(d.variants[i].generics) = Len(e.variants[i].generics)
                /\ Range(d.variants[i].generics) = Range(e.variants[i].generics)

DeterministicUpToGenericOrder ==
    pc = "done" =>
        \A doc \in compile(module) :
            /\ Len(doc) = Len(output)
            /\ \A i \in 1..Len(doc) :
                  IF output[i].item = "decl"
                  THEN doc[i].item = "decl" /\ SameUpToGenericOrder(doc[i].decl, output[i].decl)
                  ELSE doc[i] = output[i]

\* the names id_to_type_var gives the generic ids of the model
TypeVarNames == {id_to_type_var(id) : id \in ModelIds}

\* the type-variable names printed in the body of a declaration: in its type
\* documents and, for a union, applied to the constructors on the right
NamesInBody(d) ==
    UNION {Range(doc) \cap TypeVarNames : doc \in TypeDocs(d)}
    \cup (IF d.kind = "union"
          THEN UNION {Range(d.variants[i].generics) : i \in DOMAIN d.variants}
          ELSE {})

\* the names the declaration's generic-parameter list binds
NamesBound(d) == IF "generics" \in DOMAIN d THEN Range(d.generics) ELSE {}

\* C13: in every declaration emitted, every type-variable name printed in the
\* body is bound by the declaration's own generic-parameter list.
C13_NoFreeTypeVariables ==
    \A d \in Range(statements) : NamesInBody(d) \subseteq NamesBound(d)

\* what holds of the code instead: the same of every declaration but the
\* type aliases
NoFreeTypeVariablesButAliases ==
    \A d \in Range(statements) :
        d.kind # "type_alias" => NamesInBody(d) \subseteq NamesBound(d)

\* the name the printer gives a reference to the type `name` of the module
\* being compiled
ReferenceName(name) == print(App(name, module.name, <<>>), module.name).doc[1]

\* the name under which the latest statement's type was declared: that of the
\* union of a CustomType, of the only declaration of an ExternalType
DeclaredName == Last(statements).name

\* C14: the name under which a public CustomType or ExternalType of the
\* module is declared is the name printed for a reference to it from the
\* same module.
C14_DeclaredNameIsReferenceName ==
    (SomeTranslated /\ Translated.kind \in {"CustomType", "ExternalType"} /\ Translated.public)
        => DeclaredName = ReferenceName(Translated.name)

\* what holds of the code instead: the two agree for the names that
\* to_upper_camel_case leaves as they are
DeclaredNameIsReferenceNameOfCamelCase ==
    (/\ SomeTranslated
     /\ Translated.kind \in {"CustomType", "ExternalType"}
     /\ Translated.public
     /\ ToUpperCamelCase(Translated.name) = Translated.name)
        => DeclaredName = ReferenceName(Translated.name)

-----------------------------------------------------------------------------
(* Properties of compile on modules with an unknown builtin, under SpecAbort *)

KnownBuiltins ==
    {"Nil", "Int", "Float", "String", "Bool", "UtfCodepoint", "BitString", "List", "Result"}

\* some type of the list holds a builtin App of an unknown name, following Links
RECURSIVE HasUnknownBuiltin(_)
HasUnknownBuiltin(types) ==
    \E i \in 1..Len(types) :
        LET t == types[i]
        IN  CASE t.k = "Var" /\ t.type_.k = "Link" -> HasUnknownBuiltin(<<t.type_.type_>>)
              [] t.k = "Var" /\ t.type_.k # "Link" -> FALSE
              [] t.k = "App" ->
                    (t.module = <<>> /\ t.name \notin KnownBuiltins) \/ HasUnknownBuiltin(t.args)
              [] t.k = "Fn" -> HasUnknownBuiltin(t.args \o <<t.retrn>>)
              [] t.k = "Tuple" -> HasUnknownBuiltin(t.elems)

\* a public declaration one of whose translated types holds an unknown builtin
Untranslatable(s) ==
    /\ s.kind # "Import"
    /\ s.public
    /\ HasUnknownBuiltin(StatementTypes(s))

\* C12: compile returns a document only for a module none of whose public
\* declarations holds an unknown builtin; translation never goes past such a
\* declaration (no fallback type), it stops at the first one, and then no
\* document is returned, whatever had been translated before it.
C12_AbortOnUnknownBuiltin ==
    /\ (\E i \in 1..Len(module.statements) : Untranslatable(module.statements[i]))
          => (pc # "done" /\ output = <<>>)
    /\ pc \in {"statements", "panicked", "done"} =>
          \A i \in 1..(idx - 1) : ~Untranslatable(module.statements[i])
    /\ pc = "panicked" =>
          /\ idx <= Len(module.statements)
          /\ Untranslatable(module.statements[idx])
          /\ output = <<>>

\* the second declaration of a module aborted compile after the first one had
\* been translated
C12_Witness ==
    /\ pc = "panicked"
    /\ idx = 2
    /\ Len(statements) >= 1
    /\ output = <<>>

====
